---- MODULE Spec2Model ----
(***************************************************************************)
(* Model of the Table Comparator front-end script: the comparison status   *)
(* functions (getSamplingMethodText, getDetailedStatusMessage,             *)
(* getComparisonStatusClass), the loading-state helpers, the status        *)
(* message alerts with their auto-dismiss timers, and the template store.  *)
(*                                                                         *)
(* JavaScript strings are TLA+ strings; other JavaScript values are        *)
(* records [t |-> type, v |-> payload].  Numbers are formatted the way the *)
(* script formats them: `${n}` is ToString(n), n.toLocaleString() groups   *)
(* the digits in threes (en-US).  The HTML a function returns is kept as   *)
(* the structure of that HTML: the heading and the list of icon/class/text *)
(* rows.                                                                   *)
(***************************************************************************)
EXTENDS Integers, Sequences, FiniteSets, TLC

VARIABLES
    data,        \* the comparison result handed to the status functions
    ret,         \* the last status function called on data, and what it returned
    elements,    \* the buttons the loading helpers act on
    loadLog,     \* per button: the loading helper called last, and the content before the first call
    mainContent, \* whether the page has a .container-fluid element
    container,   \* the alert elements inside .container-fluid, first child first
    alerts,      \* the alert elements, by element
    timers,      \* pending auto-dismiss timeouts, each labelled with the alert it was started for
    removals,    \* pending 300 ms removal timeouts, oldest first, each bound to one alert element
    copies,      \* clipboard writes whose promise has not settled: their success messages
    storage,     \* localStorage item 'comparisonTemplates', as the object it parses to
    form,        \* the fields of #comparisonForm
    saveLog      \* per template name: the form data of the last saveAsTemplate that reported success

statusVars   == <<data, ret>>
loadingVars  == <<elements, loadLog>>
messageVars  == <<mainContent, container, alerts, timers, removals>>
templateVars == <<storage, form, saveLog>>
vars == <<data, ret, elements, loadLog, mainContent, container, alerts, timers,
          removals, copies, storage, form, saveLog>>

-----------------------------------------------------------------------------
(* JavaScript values *)

Str(s)    == [t |-> "string", v |-> s]
Undefined == [t |-> "undefined", v |-> ""]
Null      == [t |-> "null", v |-> ""]
Fn(name)  == [t |-> "function", v |-> name]
Obj(name) == [t |-> "object", v |-> name]

\* ToBoolean: undefined, null and the empty string are falsy; functions and
\* objects are truthy.
Truthy(x) ==
    CASE x.t = "undefined" -> FALSE
      [] x.t = "null"      -> FALSE
      [] x.t = "string"    -> x.v # ""
      [] OTHER             -> TRUE

\* ToPropertyKey of the values used as keys here.
PropertyKey(x) ==
    CASE x.t = "undefined" -> "undefined"
      [] x.t = "null"      -> "null"
      [] OTHER             -> x.v

\* String(x), as a template literal `${x}` computes it.
TemplateString(x) ==
    CASE x.t = "string"    -> x.v
      [] x.t = "undefined" -> "undefined"
      [] x.t = "null"      -> "null"
      [] x.t = "function"  -> "function " \o x.v \o "() { [native code] }"
      [] OTHER             -> "[object Object]"

\* What an object literal (or a JSON.parse result) inherits from
\* Object.prototype: a lookup of one of these names on a plain object finds
\* the inherited member when the object has no own property of that name.
ObjectPrototype ==
    [constructor    |-> Fn("Object"),
     toString       |-> Fn("toString"),
     valueOf        |-> Fn("valueOf"),
     hasOwnProperty |-> Fn("hasOwnProperty"),
     __proto__      |-> Obj("Object.prototype")]

\* obj[key] for a plain object whose own properties are the record `own`,
\* all holding values of the given type.
PlainObjectGet(own, key, type) ==
    IF key \in DOMAIN own THEN [t |-> type, v |-> own[key]]
    ELSE IF key \in DOMAIN ObjectPrototype THEN ObjectPrototype[key]
    ELSE Undefined

\* a || b
Or(a, b) == IF Truthy(a) THEN a ELSE b

-----------------------------------------------------------------------------
(* Number formatting *)

Pad3(n) ==
    IF n < 10 THEN "00" \o ToString(n)
    ELSE IF n < 100 THEN "0" \o ToString(n)
    ELSE ToString(n)

RECURSIVE toLocaleString(_)
toLocaleString(n) ==
    IF n < 1000 THEN ToString(n)
    ELSE toLocaleString(n \div 1000) \o "," \o Pad3(n % 1000)

RECURSIVE join(_, _)
join(parts, sep) ==
    IF Len(parts) = 0 THEN ""
    ELSE IF Len(parts) = 1 THEN parts[1]
    ELSE parts[1] \o sep \o join(Tail(parts), sep)

\* arr.push(x) when cond holds
PushIf(arr, cond, x) == IF cond THEN Append(arr, x) ELSE arr

-----------------------------------------------------------------------------
(* Comparison status functions *)

getSamplingMethodText(method) ==
    LET methods == [LAST_N |-> "most recent",
                    RANDOM |-> "random sample of",
                    TOP_N  |-> "first"]
    IN  Or(PlainObjectGet(methods, PropertyKey(method), "string"), Str("first"))

Issue(icon, text, type) == [icon |-> icon, text |-> text, type |-> type]

SchemaIssue(d) ==
    IF Len(d.schema_differences) > 0
    THEN Issue("fa-exclamation-triangle",
               "Schema differences (" \o ToString(Len(d.schema_differences)) \o ")",
               "danger")
    ELSE Issue("fa-check", "Schema identical", "success")

\* Variant: a mismatch is reported only when DEV has more rows than PROD.
RowCountIssue_DevGreater(d) ==
    IF d.dev_row_count > d.prod_row_count
    THEN Issue("fa-exclamation-triangle",
               "Row count mismatch: DEV(" \o toLocaleString(d.dev_row_count)
                   \o ") vs PROD(" \o toLocaleString(d.prod_row_count) \o ")",
               "danger")
    ELSE Issue("fa-check",
               "Row counts match (" \o toLocaleString(d.dev_row_count) \o ")",
               "success")

RowCountIssue(d) ==
    IF d.dev_row_count # d.prod_row_count
    THEN Issue("fa-exclamation-triangle",
               "Row count mismatch: DEV(" \o toLocaleString(d.dev_row_count)
                   \o ") vs PROD(" \o toLocaleString(d.prod_row_count) \o ")",
               "danger")
    ELSE Issue("fa-check",
               "Row counts match (" \o toLocaleString(d.dev_row_count) \o ")",
               "success")

\* Variant: the list names all three categories, zero or not.
DataIssue_ListsAll(d) ==
    LET s == d.summary IN
    IF s.total_differing > 0 \/ s.total_missing_dev > 0 \/ s.total_missing_prod > 0
    THEN Issue("fa-exclamation-triangle",
               "Data differences: "
                   \o join(<<ToString(s.total_differing) \o " differing",
                             ToString(s.total_missing_dev) \o " missing from DEV",
                             ToString(s.total_missing_prod) \o " missing from PROD">>, ", "),
               "danger")
    ELSE Issue("fa-check", "Compared data identical", "success")

\* Variant: rows missing from PROD are not looked at.
DataIssue_IgnoresMissingProd(d) ==
    LET s == d.summary IN
    IF s.total_differing > 0 \/ s.total_missing_dev > 0
    THEN LET i1 == PushIf(<<>>, s.total_differing > 0,
                          ToString(s.total_differing) \o " differing")
             dataIssues == PushIf(i1, s.total_missing_dev > 0,
                          ToString(s.total_missing_dev) \o " missing from DEV")
         IN  Issue("fa-exclamation-triangle",
                   "Data differences: " \o join(dataIssues, ", "),
                   "danger")
    ELSE Issue("fa-check", "Compared data identical", "success")

DataIssue(d) ==
    LET s == d.summary IN
    IF s.total_differing > 0 \/ s.total_missing_dev > 0 \/ s.total_missing_prod > 0
    THEN LET i1 == PushIf(<<>>, s.total_differing > 0,
                          ToString(s.total_differing) \o " differing")
             i2 == PushIf(i1, s.total_missing_dev > 0,
                          ToString(s.total_missing_dev) \o " missing from DEV")
             dataIssues == PushIf(i2, s.total_missing_prod > 0,
                          ToString(s.total_missing_prod) \o " missing from PROD")
         IN  Issue("fa-exclamation-triangle",
                   "Data differences: " \o join(dataIssues, ", "),
                   "danger")
    ELSE Issue("fa-check", "Compared data identical", "success")

CoverageIssue(d) ==
    IF d.was_limited
    THEN Issue("fa-info-circle",
               "Limited analysis: "
                   \o TemplateString(getSamplingMethodText(d.sampling_method))
                   \o " " \o toLocaleString(d.max_rows_setting) \o " rows",
               "warning")
    ELSE Issue("fa-check", "Complete table analysis", "success")

\* Variant: only the checks that found a problem push an issue.
Issues_OnlyProblems(d) ==
    LET IsProblem(issue) == issue.type # "success"
    IN  SelectSeq(<<SchemaIssue(d), RowCountIssue(d), DataIssue(d), CoverageIssue(d)>>,
                  IsProblem)

\* The issues array after the four checks.
Issues(d) == <<SchemaIssue(d), RowCountIssue(d), DataIssue(d), CoverageIssue(d)>>

\* One row of the returned HTML: <i class="fas icon cls"></i><span>text</span>
Row(icon, cls, text) == [icon |-> icon, cls |-> cls, text |-> text]

\* issues.map(issue => ...): icon and span both carry text-${issue.type}
IssueRow(issue) == Row(issue.icon, "text-" \o issue.type, issue.text)

\* Variant: the row count shown is PROD's.
PerfectMatch_ProdRows(d) ==
    [heading      |-> "Perfect Match!",
     headingIcon  |-> "fa-check-circle",
     headingClass |-> "text-success",
     rows |-> << Row("fa-database", "text-success", "Schema Match"),
                 Row("fa-list-ol", "text-success",
                     toLocaleString(d.prod_row_count) \o " Rows"),
                 Row("fa-equals", "text-success", "Data Identical"),
                 Row("fa-chart-line", "text-success", "Complete Analysis") >>]

PerfectMatch(d) ==
    [heading      |-> "Perfect Match!",
     headingIcon  |-> "fa-check-circle",
     headingClass |-> "text-success",
     rows |-> << Row("fa-database", "text-success", "Schema Match"),
                 Row("fa-list-ol", "text-success",
                     toLocaleString(d.dev_row_count) \o " Rows"),
                 Row("fa-equals", "text-success", "Data Identical"),
                 Row("fa-chart-line", "text-success", "Complete Analysis") >>]

AnalysisResults(d) ==
    LET issues == Issues(d) IN
    [heading      |-> "Analysis Results",
     headingIcon  |-> "fa-clipboard-check",
     headingClass |-> "text-muted",
     rows |-> [i \in 1..Len(issues) |-> IssueRow(issues[i])]]

getDetailedStatusMessage(d) ==
    IF d.tables_identical THEN PerfectMatch(d) ELSE AnalysisResults(d)

getComparisonStatusClass(d) ==
    IF d.tables_identical THEN "card-header bg-success text-white"
    ELSE "card-header bg-warning text-dark"

-----------------------------------------------------------------------------
(* The comparison results the status functions are applied to *)

MaxSchemaDiffs == 2

RowCounts     == {0, 1000, 1234567}
SummaryCounts == {0, 2, 5}
MaxRowsSettings == {1, 5000}
SamplingMethods ==
    {Str("LAST_N"), Str("RANDOM"), Str("TOP_N"), Str("BOGUS"),
     Str("constructor"), Str("toString"), Undefined, Null}

\* schema_differences: n opaque difference records
SchemaDifferences(n) == [i \in 1..n |-> "diff"]

Summaries ==
    [total_differing : SummaryCounts,
     total_missing_dev : SummaryCounts,
     total_missing_prod : SummaryCounts]

ComparisonResults ==
    [tables_identical   : BOOLEAN,
     dev_row_count      : RowCounts,
     prod_row_count     : RowCounts,
     schema_differences : {SchemaDifferences(n) : n \in 0..MaxSchemaDiffs},
     summary            : Summaries,
     was_limited        : BOOLEAN,
     sampling_method    : SamplingMethods,
     max_rows_setting   : MaxRowsSettings]

NoCall == [fn |-> "none", value |-> ""]

-----------------------------------------------------------------------------
(* Loading states *)

Buttons == {"compareBtn", "saveBtn"}
ButtonContents == {"", "Compare"}
LoadingTexts == {"Processing...", "Saving..."}
LoadingIcons == {"fa-spinner", "fa-sync"}

LoadingHtml(icon, text) ==
    "<i class=\"fas " \o icon \o " fa-spin me-2\"></i>" \o text

Button(content) ==
    [innerHTML       |-> content,
     disabled        |-> FALSE,
     originalContent |-> Undefined,      \* dataset.originalContent
     transform       |-> "",
     boxShadow       |-> ""]

\* element is the name of a button, or "null"
showModernLoading(element, text, icon) ==
    /\ IF element # "null"
       THEN LET e == elements[element]
                originalContent == e.innerHTML
            IN  /\ elements' = [elements EXCEPT ![element] =
                       [innerHTML       |-> LoadingHtml(icon, text),
                        disabled        |-> TRUE,
                        originalContent |-> Str(originalContent),
                        transform       |-> "scale(0.98)",
                        boxShadow       |-> IF icon = "fa-spinner"
                                            THEN "0 0 20px rgba(102, 126, 234, 0.4)"
                                            ELSE e.boxShadow]]
                /\ loadLog' = [loadLog EXCEPT ![element].last = "show"]
       ELSE UNCHANGED loadingVars
    /\ UNCHANGED <<statusVars, messageVars, copies, templateVars>>

hideModernLoading(element) ==
    /\ IF element # "null"
       THEN LET e == elements[element] IN
            /\ elements' =
                   IF Truthy(e.originalContent)
                   THEN [elements EXCEPT ![element] =
                            [innerHTML       |-> e.originalContent.v,
                             disabled        |-> FALSE,
                             originalContent |-> Undefined,
                             transform       |-> "scale(1)",
                             boxShadow       |-> ""]]
                   ELSE elements
            /\ loadLog' = [loadLog EXCEPT ![element].last = "hide"]
       ELSE UNCHANGED loadingVars
    /\ UNCHANGED <<statusVars, messageVars, copies, templateVars>>

-----------------------------------------------------------------------------------------------------------------------------------------------------
(* Status messages *)

MaxAlerts == 2
MaxRemovals == 2

AlertIds == 1..MaxAlerts

NoAlert == [alertClass |-> "", icon |-> "", message |-> "", opacity |-> "",
            duration |-> 0]

\* An alert element is reachable while it is in the document or a pending
\* timeout refers to it; the other elements are free to stand for new ones.
RECURSIVE Range(_)
Range(seq) == IF seq = <<>> THEN {} ELSE {Head(seq)} \cup Range(Tail(seq))

Reachable(inContainer, pendingTimers, pendingRemovals) ==
    Range(inContainer) \cup pendingTimers
        \cup {pendingRemovals[i].alert : i \in 1..Len(pendingRemovals)}

FreeIds == AlertIds \ Reachable(container, timers, removals)

\* Elements nothing refers to any more are garbage.
Collect(elems, reachable) ==
    [i \in AlertIds |-> IF i \in reachable THEN elems[i] ELSE NoAlert]

CanShow == FreeIds # {}

AlertClass(type) == IF type = "error" THEN "alert-danger" ELSE "alert-" \o type

AlertIcon(type) ==
    IF type = "error" THEN "fa-exclamation-triangle"
    ELSE IF type = "success" THEN "fa-check-circle"
    ELSE IF type = "warning" THEN "fa-exclamation-triangle"
    ELSE "fa-info-circle"

RECURSIVE Without(_, _)
Without(seq, x) ==
    IF seq = <<>> THEN <<>>
    ELSE IF Head(seq) = x THEN Without(Tail(seq), x)
    ELSE <<Head(seq)>> \o Without(Tail(seq), x)

\* The effect of showStatusMessage(message, type, duration) on the page.
showStatusMessage(message, type, duration) ==
    IF mainContent
    THEN LET id == CHOOSE i \in FreeIds : \A j \in FreeIds : i <= j IN
         /\ container' = <<id>> \o container
         /\ alerts' = [alerts EXCEPT ![id] =
                [alertClass |-> AlertClass(type),
                 icon       |-> AlertIcon(type),
                 message    |-> message,
                 opacity    |-> "",
                 duration   |-> duration]]
         /\ timers' = IF duration > 0 THEN timers \cup {id} ELSE timers
         /\ UNCHANGED <<mainContent, removals>>
    ELSE UNCHANGED messageVars

\* The timeout callback of showStatusMessage: it looks the alert up again.
AutoDismiss(owner) ==
    /\ owner \in timers
    /\ Len(removals) < MaxRemovals
    /\ timers' = timers \ {owner}
    /\ IF container # <<>>
       THEN LET alert == Head(container) IN       \* querySelector('.alert')
            /\ removals' = Append(removals, [alert |-> alert, owner |-> owner])
            /\ alerts' = Collect([alerts EXCEPT ![alert].opacity = "0"],
                                 Reachable(container, timers', removals'))
       ELSE /\ removals' = removals
            /\ alerts' = Collect(alerts, Reachable(container, timers', removals))
    /\ UNCHANGED <<mainContent, container>>
    /\ UNCHANGED <<statusVars, loadingVars, copies, templateVars>>

\* The inner timeout callback: alert.remove()
RemoveAlert ==
    /\ removals # <<>>
    /\ LET alert == Head(removals).alert IN
       /\ container' = Without(container, alert)
    /\ removals' = Tail(removals)
    /\ alerts' = Collect(alerts, Reachable(container', timers, removals'))
    /\ UNCHANGED <<mainContent, timers>>
    /\ UNCHANGED <<statusVars, loadingVars, copies, templateVars>>

\* The user clicks the alert's btn-close (data-bs-dismiss="alert").
DismissAlert(alert) ==
    /\ alert \in Range(container)
    /\ container' = Without(container, alert)
    /\ alerts' = Collect(alerts, Reachable(container', timers, removals))
    /\ UNCHANGED <<mainContent, timers, removals>>
    /\ UNCHANGED <<statusVars, loadingVars, copies, templateVars>>

StatusTexts == {"Comparison finished"}
StatusTypes == {"info", "error", "success", "warning"}
Durations == {0, 5000}
DefaultDuration == 5000
CopyDuration == 3000

CallShowStatusMessage(message, type, duration) ==
    /\ mainContent => CanShow
    /\ showStatusMessage(message, type, duration)
    /\ UNCHANGED <<statusVars, loadingVars, copies, templateVars>>

CopyMessages == {"Copied to clipboard!", "Query copied"}
MaxCopies == 1

copyToClipboard(successMessage) ==
    /\ Len(copies) < MaxCopies
    /\ copies' = Append(copies, successMessage)
    /\ UNCHANGED <<statusVars, loadingVars, messageVars, templateVars>>

\* navigator.clipboard.writeText settles: .then on success, .catch on failure
ClipboardSettled(i, ok) ==
    /\ i \in 1..Len(copies)
    /\ mainContent => CanShow
    /\ IF ok
       THEN showStatusMessage(copies[i], "success", CopyDuration)
       ELSE showStatusMessage("Failed to copy to clipboard", "error", CopyDuration)
    /\ copies' = [j \in 1..(Len(copies) - 1) |-> IF j < i THEN copies[j] ELSE copies[j + 1]]
    /\ UNCHANGED <<statusVars, loadingVars, templateVars>>

-----------------------------------------------------------------------------------------------------------------------------------------------------
(* Template management *)

Fields == {"dev_table", "prod_table"}
FieldValues == {"", "sales"}

\* A form control as the page loads it: the has-value class is only set by
\* the input listener.
Field(value) == [value |-> value, hasValue |-> FALSE]

\* The input listener of initFormEnhancements.
OnInput(value) == [value |-> value, hasValue |-> value # ""]

\* Object.fromEntries(new FormData(form))
FormEntries(f) == [k \in DOMAIN f |-> f[k].value]

\* What prompt() returns: null on Cancel, else the text typed.
PromptAnswers ==
    {Null, Str(""), Str("a"), Str("b"), Str("constructor"), Str("__proto__")}

\* Object.keys(x): own enumerable properties; functions and Object.prototype
\* have none.
ObjectKeys(x) == IF x.t = "template" THEN DOMAIN x.v ELSE {}

\* templates[name] = templateData, then JSON.stringify(templates): assigning
\* to __proto__ sets the prototype and adds no own property.
AssignAndStringify(templates, name, templateData) ==
    IF name = "__proto__" THEN templates
    ELSE [n \in DOMAIN templates \cup {name} |->
             IF n = name THEN templateData ELSE templates[n]]

\* The template handlers run while at most MaxTemplateAlerts - 1 earlier
\* alerts are still around.
MaxTemplateAlerts == 1
RoomForTemplateAlert ==
    Cardinality(Reachable(container, timers, removals)) < MaxTemplateAlerts

\* The message texts, without their trailing emoji.
SavedText(name)  == "Template \"" \o name \o "\" saved successfully!"
LoadedText(name) == "Template \"" \o name \o "\" loaded successfully!"
NoTemplatesText  == "No saved templates found. Create one first!"

saveAsTemplate(templateName) ==
    /\ RoomForTemplateAlert
    /\ IF Truthy(templateName)
       THEN LET templateData == FormEntries(form)
                templates == storage      \* JSON.parse(getItem(...) || '{}')
            IN  /\ storage' = AssignAndStringify(templates, templateName.v, templateData)
                /\ saveLog' = [n \in DOMAIN saveLog \cup {templateName.v} |->
                                  IF n = templateName.v THEN templateData ELSE saveLog[n]]
                /\ showStatusMessage(SavedText(templateName.v), "success", DefaultDuration)
       ELSE UNCHANGED <<storage, saveLog, messageVars>>
    /\ UNCHANGED <<form, statusVars, loadingVars, copies>>

loadTemplate(templateName) ==
    /\ RoomForTemplateAlert
    /\ LET templates == storage
           templateNames == DOMAIN templates
       IN  IF templateNames = {}
           THEN /\ showStatusMessage(NoTemplatesText, "warning", DefaultDuration)
                /\ UNCHANGED form
           ELSE LET found == PlainObjectGet(templates, PropertyKey(templateName),
                                            "template")
                IN  IF Truthy(templateName) /\ Truthy(found)
                    THEN /\ form' = [f \in DOMAIN form |->
                                        IF f \in ObjectKeys(found)
                                        THEN OnInput(found.v[f]) ELSE form[f]]
                         /\ showStatusMessage(LoadedText(templateName.v), "success",
                                              DefaultDuration)
                    ELSE UNCHANGED <<form, messageVars>>
    /\ UNCHANGED <<storage, saveLog, statusVars, loadingVars, copies>>

\* The user types into a form control.
userInput(field, value) ==
    /\ form' = [form EXCEPT ![field] = OnInput(value)]
    /\ UNCHANGED <<storage, saveLog, statusVars, loadingVars, messageVars, copies>>

-----
(* Initial states *)

IdleStatus ==
    /\ data = [tables_identical |-> TRUE, dev_row_count |-> 0, prod_row_count |-> 0,
               schema_differences |-> <<>>,
               summary |-> [total_differing |-> 0, total_missing_dev |-> 0,
                            total_missing_prod |-> 0],
               was_limited |-> FALSE, sampling_method |-> Undefined,
               max_rows_setting |-> 1]
    /\ ret = NoCall

IdleLoading ==
    /\ elements = [b \in Buttons |-> Button("Compare")]
    /\ loadLog = [b \in Buttons |-> [last |-> "none", original |-> "Compare"]]

NoMessages ==
    /\ container = <<>>
    /\ alerts = [i \in AlertIds |-> NoAlert]
    /\ timers = {}
    /\ removals = <<>>
    /\ copies = <<>>

IdleMessages == mainContent = TRUE /\ NoMessages

IdleTemplates ==
    /\ storage = <<>>
    /\ form = [f \in Fields |-> Field("")]
    /\ saveLog = <<>>

-----
(* The status functions applied to one comparison result *)

CallGetDetailedStatusMessage ==
    /\ ret' = [fn |-> "getDetailedStatusMessage", value |-> getDetailedStatusMessage(data)]
    /\ UNCHANGED <<data, loadingVars, messageVars, copies, templateVars>>

CallGetComparisonStatusClass ==
    /\ ret' = [fn |-> "getComparisonStatusClass", value |-> getComparisonStatusClass(data)]
    /\ UNCHANGED <<data, loadingVars, messageVars, copies, templateVars>>

CallGetSamplingMethodText ==
    /\ ret' = [fn |-> "getSamplingMethodText", value |-> getSamplingMethodText(data.sampling_method)]
    /\ UNCHANGED <<data, loadingVars, messageVars, copies, templateVars>>

Init ==
    /\ data \in ComparisonResults
    /\ ret = NoCall
    /\ IdleLoading /\ IdleMessages /\ IdleTemplates

Next ==
    \/ CallGetDetailedStatusMessage
    \/ CallGetComparisonStatusClass
    \/ CallGetSamplingMethodText

Spec == Init /\ [][Next]_vars

-----------------------------------------------------------------------------
(* The loading helpers applied to the page's buttons *)

InitLoading ==
    /\ \E c \in [Buttons -> ButtonContents] :
          /\ elements = [b \in Buttons |-> Button(c[b])]
          /\ loadLog = [b \in Buttons |-> [last |-> "none", original |-> c[b]]]
    /\ IdleStatus /\ IdleMessages /\ IdleTemplates

NextLoading ==
    \/ \E element \in Buttons \cup {"null"}, text \in LoadingTexts, icon \in LoadingIcons :
          showModernLoading(element, text, icon)
    \/ \E element \in Buttons \cup {"null"} : hideModernLoading(element)

SpecLoading == InitLoading /\ [][NextLoading]_vars

-----------------------------------------------------------------------------
(* Status messages shown, copied and dismissed on a page *)

InitMessages ==
    /\ mainContent \in BOOLEAN
    /\ NoMessages
    /\ IdleStatus /\ IdleLoading /\ IdleTemplates

NextMessages ==
    \/ \E message \in StatusTexts, type \in StatusTypes, duration \in Durations :
          CallShowStatusMessage(message, type, duration)
    \/ \E successMessage \in CopyMessages : copyToClipboard(successMessage)
    \/ \E i \in 1..MaxCopies, ok \in BOOLEAN : ClipboardSettled(i, ok)
    \/ \E owner \in AlertIds : AutoDismiss(owner)
    \/ RemoveAlert
    \/ \E alert \in AlertIds : DismissAlert(alert)

SpecMessages == InitMessages /\ [][NextMessages]_vars

-----------------------------------------------------------------------------
(* Templates saved and loaded on a page with the comparison form *)

InitTemplates ==
    /\ storage = <<>>
    /\ \E c \in [Fields -> FieldValues] : form = [f \in Fields |-> Field(c[f])]
    /\ saveLog = <<>>
    /\ IdleStatus /\ IdleLoading /\ IdleMessages

NextTemplates ==
    \/ \E templateName \in PromptAnswers : saveAsTemplate(templateName)
    \/ \E templateName \in PromptAnswers : loadTemplate(templateName)
    \/ \E field \in Fields, value \in FieldValues : userInput(field, value)
    \/ \E owner \in AlertIds : AutoDismiss(owner)
    \/ RemoveAlert
    \/ \E alert \in AlertIds : DismissAlert(alert)

SpecTemplates == InitTemplates /\ [][NextTemplates]_vars

-----------------------------------------------------------------------------
(* The status functions applied to a result whose headline flag was computed
   upstream: tables_identical is true iff there are no schema differences,
   the row counts are equal and there are no data differences. *)

TablesIdentical(d) ==
    /\ Len(d.schema_differences) = 0
    /\ d.dev_row_count = d.prod_row_count
    /\ d.summary.total_differing = 0
    /\ d.summary.total_missing_dev = 0
    /\ d.summary.total_missing_prod = 0

CompareTables(d) == [d EXCEPT !.tables_identical = TablesIdentical(d)]

InitUpstream ==
    /\ data \in {CompareTables(d) : d \in ComparisonResults}
    /\ ret = NoCall
    /\ IdleLoading /\ IdleMessages /\ IdleTemplates

SpecUpstream == InitUpstream /\ [][Next]_vars

-----------------------------------------------------------------------------
(* Properties *)

StartsWith(s, p) == Len(s) >= Len(p) /\ SubSeq(s, 1, Len(p)) = p

Contains(s, p) ==
    \E i \in 1..(Len(s) - Len(p) + 1) : SubSeq(s, i, i + Len(p) - 1) = p

\* The category an issue text belongs to.
Category(text) ==
    IF StartsWith(text, "Schema ") THEN "schema"
    ELSE IF StartsWith(text, "Row count") THEN "row-count"
    ELSE IF StartsWith(text, "Data differences") \/ StartsWith(text, "Compared data")
         THEN "data"
    ELSE IF StartsWith(text, "Limited analysis") \/ StartsWith(text, "Complete table analysis")
         THEN "coverage"
    ELSE "unknown"

Detailed == ret.fn = "getDetailedStatusMessage"
StatusClass == ret.fn = "getComparisonStatusClass"
NonIdenticalReport == Detailed /\ ~data.tables_identical
IdenticalReport == Detailed /\ data.tables_identical

\* C1: a result with tables_identical = false yields exactly four issue
\* entries, in the order schema, row-count, data, coverage, and its header
\* class is the warning one, never a danger one.
C1_FourIssuesWarningHeader ==
    /\ NonIdenticalReport =>
          /\ Len(ret.value.rows) = 4
          /\ <<Category(ret.value.rows[1].text), Category(ret.value.rows[2].text),
               Category(ret.value.rows[3].text), Category(ret.value.rows[4].text)>>
                 = <<"schema", "row-count", "data", "coverage">>
    /\ (StatusClass /\ ~data.tables_identical) =>
          /\ Contains(ret.value, "bg-warning")
          /\ ~Contains(ret.value, "danger")
          /\ ~Contains(ret.value, "success")

C1_Witness ==
    /\ NonIdenticalReport
    /\ \A i \in 1..3 : ret.value.rows[i].cls = "text-danger"
    /\ ret.value.rows[4].cls = "text-warning"

\* C2: a result with tables_identical = true yields one success-styled
\* report with the four fixed affirmations and the formatted dev_row_count,
\* whatever the other fields are; its header class is the success one.
C2_IdenticalSingleSuccessReport ==
    /\ IdenticalReport =>
          /\ ret.value.heading = "Perfect Match!"
          /\ ret.value.headingClass = "text-success"
          /\ [i \in 1..Len(ret.value.rows) |-> ret.value.rows[i].text]
                 = <<"Schema Match", toLocaleString(data.dev_row_count) \o " Rows",
                     "Data Identical", "Complete Analysis">>
          /\ \A i \in 1..Len(ret.value.rows) : ret.value.rows[i].cls = "text-success"
    /\ (StatusClass /\ data.tables_identical) =>
          /\ Contains(ret.value, "bg-success")
          /\ ~Contains(ret.value, "warning")

C2_Witness ==
    /\ IdenticalReport
    /\ data.dev_row_count = 1000
    /\ data.prod_row_count # 1000
    /\ Len(data.schema_differences) > 0
    /\ data.summary.total_differing > 0
    /\ data.was_limited
    /\ ret.value.rows[2].text = "1,000 Rows"

\* The phrase the specification gives for a sampling method.
SpecifiedPhrase(method) ==
    IF method = Str("LAST_N") THEN "most recent"
    ELSE IF method = Str("RANDOM") THEN "random sample of"
    ELSE "first"

\* C3: getSamplingMethodText returns "most recent" for LAST_N, "random
\* sample of" for RANDOM, "first" for TOP_N and the string "first" for every
\* other input, names of inherited object members included.
C3_SamplingTextTotal ==
    ret.fn = "getSamplingMethodText" =>
        ret.value = Str(SpecifiedPhrase(data.sampling_method))

\* The non-zero categories of a summary, as "<n> <label>", in the order
\* differing, missing from DEV, missing from PROD.
NonZeroCategories(s) ==
    LET all == << <<s.total_differing, "differing">>,
                  <<s.total_missing_dev, "missing from DEV">>,
                  <<s.total_missing_prod, "missing from PROD">> >>
        IsNonZero(c) == c[1] # 0
        kept == SelectSeq(all, IsNonZero)
    IN  [i \in 1..Len(kept) |-> ToString(kept[i][1]) \o " " \o kept[i][2]]

\* C4: the data entry is danger exactly when a summary count is > 0, and
\* success "Compared data identical" when all are 0; when danger it lists
\* exactly the non-zero categories, comma-joined in the fixed order.
C4_DataIssueListsNonZero ==
    NonIdenticalReport =>
        LET s == data.summary
            row == ret.value.rows[3]
        IN  /\ (s.total_differing = 0 /\ s.total_missing_dev = 0 /\ s.total_missing_prod = 0)
                   => row.cls = "text-success" /\ row.text = "Compared data identical"
            /\ (s.total_differing > 0 \/ s.total_missing_dev > 0 \/ s.total_missing_prod > 0)
                   => /\ row.cls = "text-danger"
                      /\ row.text = "Data differences: " \o join(NonZeroCategories(s), ", ")
                      /\ Contains(row.text, "differing") <=> s.total_differing > 0
                      /\ Contains(row.text, "missing from DEV") <=> s.total_missing_dev > 0
                      /\ Contains(row.text, "missing from PROD") <=> s.total_missing_prod > 0
            /\ (s.total_differing = 5 /\ s.total_missing_dev = 0 /\ s.total_missing_prod = 2)
                   => row.text = "Data differences: 5 differing, 2 missing from PROD"

C4_Witness ==
    /\ NonIdenticalReport
    /\ data.summary = [total_differing |-> 5, total_missing_dev |-> 0,
                       total_missing_prod |-> 2]
    /\ ret.value.rows[3] = Row("fa-exclamation-triangle", "text-danger",
                               "Data differences: 5 differing, 2 missing from PROD")

\* The results that differ from d in one field only, with the field's name
\* (the headline flag stays false).
SingleFieldChanges(d) ==
    {<<"dev_row_count", [d EXCEPT !.dev_row_count = v]>> : v \in RowCounts}
    \cup {<<"prod_row_count", [d EXCEPT !.prod_row_count = v]>> : v \in RowCounts}
    \cup {<<"schema_differences", [d EXCEPT !.schema_differences = SchemaDifferences(n)]>> :
             n \in 0..MaxSchemaDiffs}
    \cup {<<"summary", [d EXCEPT !.summary = v]>> : v \in Summaries}
    \cup {<<"was_limited", [d EXCEPT !.was_limited = v]>> : v \in BOOLEAN}
    \cup {<<"sampling_method", [d EXCEPT !.sampling_method = v]>> : v \in SamplingMethods}
    \cup {<<"max_rows_setting", [d EXCEPT !.max_rows_setting = v]>> : v \in MaxRowsSettings}

\* The fields each entry of the report is about, by position.
CategoryFields ==
    << {"schema_differences"},
       {"dev_row_count", "prod_row_count"},
       {"summary"},
       {"was_limited", "sampling_method", "max_rows_setting"} >>

\* C5: the schema entry is danger, with the number of differences, iff
\* schema_differences is non-empty; the row-count entry is danger, with both
\* counts, iff the counts differ, and success with the matching count
\* otherwise; and no entry changes when a field of another category changes.
C5_EntriesIndependent ==
    NonIdenticalReport =>
        LET rows == ret.value.rows
            n == Len(data.schema_differences)
            dev == toLocaleString(data.dev_row_count)
            prod == toLocaleString(data.prod_row_count)
        IN  /\ rows[1] = IF n # 0
                         THEN Row("fa-exclamation-triangle", "text-danger",
                                  "Schema differences (" \o ToString(n) \o ")")
                         ELSE Row("fa-check", "text-success", "Schema identical")
            /\ rows[2] = IF data.dev_row_count # data.prod_row_count
                         THEN Row("fa-exclamation-triangle", "text-danger",
                                  "Row count mismatch: DEV(" \o dev \o ") vs PROD("
                                      \o prod \o ")")
                         ELSE Row("fa-check", "text-success",
                                  "Row counts match (" \o dev \o ")")
            /\ \A c \in SingleFieldChanges(data) : \A i \in 1..4 :
                   c[1] \notin CategoryFields[i]
                       => getDetailedStatusMessage(c[2]).rows[i] = rows[i]

C5_Witness ==
    /\ NonIdenticalReport
    /\ Len(data.schema_differences) = 2
    /\ data.summary.total_differing = 5
    /\ ret.value.rows[1].text = "Schema differences (2)"
    /\ ret.value.rows[1].cls = "text-danger"
    /\ ret.value.rows[2].text = "Row counts match (1,000)"
    /\ ret.value.rows[2].cls = "text-success"

\* C6: the coverage entry is warning iff was_limited, with the message
\* "Limited analysis: <phrase> <max_rows_setting> rows" whose phrase falls
\* back to "first" for an unknown or missing sampling method; it is success
\* "Complete table analysis" otherwise; it is never danger and no other
\* entry is warning.
C6_CoverageEntry ==
    NonIdenticalReport =>
        LET rows == ret.value.rows IN
        /\ rows[4] = IF data.was_limited
                     THEN Row("fa-info-circle", "text-warning",
                              "Limited analysis: " \o SpecifiedPhrase(data.sampling_method)
                                  \o " " \o toLocaleString(data.max_rows_setting) \o " rows")
                     ELSE Row("fa-check", "text-success", "Complete table analysis")
        /\ rows[4].cls # "text-danger"
        /\ \A i \in 1..3 : rows[i].cls # "text-warning"

C8_ShowHideRoundTrip ==
    \A b \in Buttons :
        loadLog[b].last = "hide" =>
            /\ ~elements[b].disabled
            /\ elements[b].innerHTML = loadLog[b].original

\* C9: the alert an auto-dismiss timer is about to remove is the alert the
\* timer was started for, which was shown with duration > 0; an alert shown
\* with duration 0 is never removed by a timer.
C9_TimerRemovesOwnMessage ==
    \A i \in 1..Len(removals) :
        /\ removals[i].alert = removals[i].owner
        /\ alerts[removals[i].alert].duration > 0

\* C10: loadTemplate reports "loaded successfully" only for a name an
\* earlier saveAsTemplate stored, and then the form holds the field values of
\* the most recent save under that name; a save leaves the templates under
\* other names unchanged; a cancelled or empty name changes neither the store
\* nor the form.
C10_TemplateStore ==
    [][ /\ \A name \in PromptAnswers :
              (loadTemplate(name) /\ storage # <<>> /\ container' # container) =>
                  /\ name.v \in DOMAIN saveLog
                  /\ FormEntries(form') = saveLog[name.v]
        /\ \A name \in PromptAnswers :
              saveAsTemplate(name) =>
                  \A other \in DOMAIN storage \ {name.v} :
                      other \in DOMAIN storage' /\ storage'[other] = storage[other]
        /\ \A name \in {Null, Str("")} :
              (saveAsTemplate(name) \/ (loadTemplate(name) /\ storage # <<>>)) =>
                  storage' = storage /\ form' = form
      ]_vars

====
